---- MODULE Spec2Model ----
(***************************************************************************)
(* The interactive code-structure graph explorer of CodeExplain:           *)
(* frontend/src/view/CodeVisualization.jsx.                                *)
(*                                                                         *)
(* The component holds seven pieces of React state (graphData, loading,    *)
(* error, selectedNode, filterType, highlightNodes, highlightLinks), one   *)
(* derived value (filteredData, a useMemo), one effect keyed by the `code` *)
(* prop that issues an asynchronous fetch, and four event handlers.        *)
(*                                                                         *)
(* Two further screens are modelled beside it, each by its own            *)
(* specification: the session history (view/HistoryView.jsx, selectItem)   *)
(* and the admin dashboard (view/AdminView.jsx, token, logout and the      *)
(* polling effect).                                                        *)
(*                                                                         *)
(* Encoding of JavaScript values:                                          *)
(*   - an object is a record; a property that is absent is a field that    *)
(*     is not in the record's DOMAIN;                                      *)
(*   - null is the record Null;                                            *)
(*   - a string held in a variable that may also hold null (error) is the  *)
(*     record Str(s);                                                      *)
(*   - an array is a sequence, a Set is a set;                             *)
(*   - the text of the `code` prop is a sequence of one-character strings. *)
(***************************************************************************)
EXTENDS Integers, Sequences, FiniteSets, TLC

VARIABLES
    mounted,        \* the component has rendered and run its mount effect
    code,           \* the `code` prop
    graphData,      \* useState(null)
    loading,        \* useState(false)
    error,          \* useState(null)
    selectedNode,   \* useState(null)
    filterType,     \* useState('all')
    highlightNodes, \* useState(new Set())
    highlightLinks, \* useState(new Set())
    issued,         \* number of fetchGraphData calls made so far
    pc,             \* position of each fetchGraphData call
    lastData,       \* what the most recently issued call was answered with
    lastEvent,      \* the effect, continuation or handler that ran last
    selectedId,     \* HistoryView: useState(null)
    selectedDetail, \* HistoryView: useState(null)
    detailCalls,    \* HistoryView: the selectItem calls made so far, in order
    token,          \* AdminView: useState(localStorage.getItem(...) || '')
    stats,          \* AdminView: useState(null)
    logs,           \* AdminView: useState([])
    keys,           \* AdminView: useState([])
    adminError,     \* AdminView: useState(null), named error there
    polling,        \* AdminView: the setInterval(fetchAll, 5000) timer is set
    polls           \* AdminView: the fetchAll calls made so far, in order

\* the state of the session history screen
historyVars == <<selectedId, selectedDetail, detailCalls>>

\* the state of the admin screen
adminVars == <<token, stats, logs, keys, adminError, polling, polls>>

\* the state of the graph explorer
explorerVars == <<mounted, code, graphData, loading, error, selectedNode, filterType,
                  highlightNodes, highlightLinks, issued, pc, lastData>>

vars == <<mounted, code, graphData, loading, error, selectedNode, filterType,
          highlightNodes, highlightLinks, issued, pc, lastData, lastEvent,
          selectedId, selectedDetail, detailCalls,
          token, stats, logs, keys, adminError, polling, polls>>

(***************************************************************************)
(* Bounds                                                                  *)
(***************************************************************************)
\* fetchGraphData calls in one run
MaxFetches == 3
\* length of the edge list of a generated graph
MaxEdges == 2
\* selectItem calls in one run
MaxSelects == 3
\* fetchAll calls in one run
MaxPolls == 3

(***************************************************************************)
(* JavaScript values                                                       *)
(***************************************************************************)
Null == [null |-> TRUE]

Str(s) == [str |-> s]

Has(obj, field) == field \in DOMAIN obj

\* undefined, where the code expects a string (an id)
Undefined == "<undefined>"

\* a value inside a template literal: `${undefined}` is "undefined"
Stringify(v) == IF v = Undefined THEN "undefined" ELSE v

\* obj.id: undefined when the object has no id
PropId(obj) == IF Has(obj, "id") THEN obj.id ELSE Undefined

\* what a useMemo body or a handler that raised a TypeError leaves
Thrown == [threw |-> "TypeError"]

Range(s) == {s[i] : i \in DOMAIN s}

\* String.prototype.trim on a text given as a sequence of characters
RECURSIVE TrimLeft(_)
TrimLeft(s) ==
    IF s = <<>> THEN <<>>
    ELSE IF Head(s) = " " THEN TrimLeft(Tail(s)) ELSE s

RECURSIVE TrimRight(_)
TrimRight(s) ==
    IF s = <<>> THEN <<>>
    ELSE IF s[Len(s)] = " " THEN TrimRight(SubSeq(s, 1, Len(s) - 1)) ELSE s

Trim(s) == TrimRight(TrimLeft(s))

\* !code || !code.trim()
IsBlank(c) == c = <<>> \/ Trim(c) = <<>>

(***************************************************************************)
(* Graph payloads                                                          *)
(***************************************************************************)
Node(id, group) == [id |-> id, group |-> group]

\* an edge endpoint given as a bare id: typeof is "string"
Bare(id) == [typeof |-> "string", value |-> id]

\* an edge endpoint given as an object carrying an id: typeof is "object"
Obj(id) == [typeof |-> "object", value |-> [id |-> id]]

Link(s, t, type) == [source |-> s, target |-> t, type |-> type]

\* an edge endpoint that is absent: link.source is undefined
Missing == [typeof |-> "undefined", value |-> Undefined]

\* an edge endpoint given as null: typeof null is "object"
NullEndpoint == [typeof |-> "object", value |-> Null]

\* link.source, link.target
SourceOf(link) == IF Has(link, "source") THEN link.source ELSE Missing

TargetOf(link) == IF Has(link, "target") THEN link.target ELSE Missing

\* the spec's concrete scenario: the edge list is named `edges`
GraphScenario ==
    [nodes |-> <<Node("f1", "function"), Node("c1", "class"), Node("v1", "variable")>>,
     edges |-> <<Link(Bare("f1"), Bare("c1"), "calls"),
                 Link(Bare("c1"), Bare("v1"), "contains")>>]

\* two functions, an edge given with object endpoints and an edge to an id
\* that no node carries
GraphDangling ==
    [nodes |-> <<Node("f1", "function"), Node("f2", "function")>>,
     links |-> <<Link(Obj("f1"), Obj("f2"), "calls"),
                 Link(Bare("f2"), Bare("zz"), "calls")>>]

\* a single node without edges
GraphIsolated ==
    [nodes |-> <<Node("v1", "variable")>>, links |-> <<>>]

\* the graphs the service answers with in Spec
Payloads == {GraphScenario, GraphDangling, GraphIsolated}

\* a payload that names its edge list twice, differently
GraphBoth ==
    [nodes |-> <<Node("f1", "function"), Node("c1", "class")>>,
     links |-> <<Link(Bare("f1"), Bare("c1"), "calls")>>,
     edges |-> <<Link(Bare("c1"), Bare("f1"), "inherits"),
                 Link(Bare("c1"), Bare("c1"), "contains")>>]

\* a payload with an empty `links` and a non-empty `edges`
GraphEmptyLinks ==
    [nodes |-> <<Node("f1", "function"), Node("c1", "class")>>,
     links |-> <<>>,
     edges |-> <<Link(Bare("f1"), Bare("c1"), "calls")>>]

\* a payload with no edge list
GraphNoEdges ==
    [nodes |-> <<Node("f1", "function"), Node("c1", "class")>>]

\* a payload with no node list
GraphNoNodes ==
    [links |-> <<Link(Bare("f1"), Bare("c1"), "calls")>>]

\* a payload with a node without id, an edge without source and an edge whose
\* source is an object without id
GraphMissingIds ==
    [nodes |-> <<Node("f1", "function"), [group |-> "function"], Node("c1", "class")>>,
     links |-> <<Link(Bare("f1"), Bare("c1"), "calls"),
                 [target |-> Bare("f1"), type |-> "calls"],
                 Link([typeof |-> "object", value |-> [label |-> "g"]], Bare("c1"), "calls")>>]

\* a payload with an edge whose source is null
GraphNullEndpoint ==
    [nodes |-> <<Node("f1", "function"), Node("f2", "function")>>,
     links |-> <<Link(Bare("f1"), Bare("f2"), "calls"),
                 Link(NullEndpoint, Bare("f1"), "calls")>>]

\* a payload with two nodes that carry the same id
GraphDuplicateIds ==
    [nodes |-> <<Node("f1", "function"), Node("c1", "class"), Node("f1", "class")>>,
     links |-> <<Link(Bare("f1"), Bare("c1"), "calls")>>]

\* the payloads SpecRaw starts from: loosely-typed answers of the service
RawGraphs ==
    {GraphScenario, GraphDangling, GraphBoth, GraphEmptyLinks, GraphNoEdges,
     GraphNoNodes, GraphMissingIds, GraphNullEndpoint, GraphDuplicateIds}

\* every sequence over S of length at most n
RECURSIVE SeqsUpTo(_, _)
SeqsUpTo(S, n) ==
    IF n = 0 THEN {<<>>}
    ELSE LET shorter == SeqsUpTo(S, n - 1)
         IN  shorter \cup {Append(q, x) : q \in {r \in shorter : Len(r) = n - 1}, x \in S}

\* the ids edges of a generated graph name: three nodes and an id no node carries
GenIds == {"f1", "f2", "c1", "zz"}

GenNodes == <<Node("f1", "function"), Node("f2", "function"), Node("c1", "class")>>

GenLinks == {Link(Bare(s), Bare(t), "calls") : s \in GenIds, t \in GenIds}

\* the graphs SpecGraphs starts from: every edge list of at most MaxEdges edges
\* over GenNodes, and the payloads of Spec
GenGraphs ==
    {[nodes |-> GenNodes, links |-> ls] : ls \in SeqsUpTo(GenLinks, MaxEdges)}
      \cup Payloads

\* the service-provided message of a semantic error
ServiceMessage == "Analysis failed"

\* the bodies response.json() resolves with: a graph; a failure with and
\* without a message; ok without a graph; a failure that carries a graph; the
\* body of a non-2xx answer, whose detail is a string
Datas ==
    {[ok |-> TRUE, graph |-> g] : g \in Payloads}
      \cup {[ok |-> FALSE, detail |-> [message |-> ServiceMessage]],
            [ok |-> FALSE],
            [ok |-> TRUE, graph |-> Null],
            [ok |-> TRUE],
            [ok |-> FALSE, graph |-> GraphIsolated],
            [detail |-> Str("Not Found")]}

\* the errors fetch() rejects with: err.message
FetchRejections == {[message |-> "Failed to fetch"], [message |-> ""]}

\* the errors response.json() rejects with: err.message
JsonRejections == {[message |-> "Unexpected token < in JSON at position 0"]}

Rejections == FetchRejections \cup JsonRejections

\* the texts the `code` prop takes
Texts == {<<>>, <<" ">>, <<"a">>, <<" ", "b">>}

\* the options of the filter <select>
FilterOptions == {"all", "function", "class", "variable"}

(***************************************************************************)
(* Pure parts of the component                                             *)
(***************************************************************************)
\* the object case reading a property the endpoint object does not carry
EndpointIdWrongProperty(e) == IF e.typeof = "object" THEN Undefined ELSE e.value

\* typeof link.source === 'object' ? link.source.id : link.source
EndpointId(e) == IF e.typeof = "object" THEN PropId(e.value) ELSE e.value

\* link.source.id with link.source null raises a TypeError
EndpointThrows(e) == e.typeof = "object" /\ e.value = Null

\* the two endpoint expressions of a link: one of them raises
LinkThrows(link) == EndpointThrows(SourceOf(link)) \/ EndpointThrows(TargetOf(link))

\* `${sourceId}->${targetId}`
LinkKey(sourceId, targetId) == Stringify(sourceId) \o "->" \o Stringify(targetId)

\* the key getLinkColor and linkWidth look a link up by
linkKeyOf(link) == LinkKey(EndpointId(SourceOf(link)), EndpointId(TargetOf(link)))

\* graphData.nodes || []
NodesOf(g) == IF Has(g, "nodes") THEN g.nodes ELSE <<>>

\* the same with graphData.edges asked first
LinksOfEdgesFirst(g) ==
    IF Has(g, "edges") THEN g.edges
    ELSE IF Has(g, "links") THEN g.links
    ELSE <<>>

\* graphData.links || graphData.edges || []
LinksOf(g) ==
    IF Has(g, "links") THEN g.links
    ELSE IF Has(g, "edges") THEN g.edges
    ELSE <<>>

\* new Set(filteredNodes.map(n => n.id))
IdSet(nodes) == {PropId(nodes[i]) : i \in DOMAIN nodes}

\* the callback of filteredLinks.filter raises on some link
FilterThrows(g) == \E i \in DOMAIN LinksOf(g) : LinkThrows(LinksOf(g)[i])

\* filteredData with `||` for `&&` in the edge test: an edge with one kept
\* endpoint survives
filteredDataEitherEndpoint(g, ft) ==
    IF g = Null THEN Null
    ELSE IF ft # "all" /\ FilterThrows(g) THEN Thrown
    ELSE IF ft # "all"
         THEN LET filteredNodes == SelectSeq(NodesOf(g), LAMBDA node : node.group = ft)
                  nodeIds == IdSet(filteredNodes)
                  filteredLinks ==
                      SelectSeq(LinksOf(g),
                                LAMBDA link : \/ EndpointId(SourceOf(link)) \in nodeIds
                                              \/ EndpointId(TargetOf(link)) \in nodeIds)
              IN  [nodes |-> filteredNodes, links |-> filteredLinks]
         ELSE [nodes |-> NodesOf(g), links |-> LinksOf(g)]

\* filteredData with the edge test applied under 'all' as well
filteredDataAlwaysFilters(g, ft) ==
    IF g = Null THEN Null
    ELSE IF FilterThrows(g) THEN Thrown
    ELSE LET filteredNodes == IF ft # "all"
                              THEN SelectSeq(NodesOf(g), LAMBDA node : node.group = ft)
                              ELSE NodesOf(g)
             nodeIds == IdSet(filteredNodes)
             filteredLinks ==
                 SelectSeq(LinksOf(g),
                           LAMBDA link : /\ EndpointId(SourceOf(link)) \in nodeIds
                                         /\ EndpointId(TargetOf(link)) \in nodeIds)
         IN  [nodes |-> filteredNodes, links |-> filteredLinks]

\* the useMemo body: the graph handed to ForceGraph2D
filteredData(g, ft) ==
    IF g = Null THEN Null
    ELSE IF ft # "all" /\ FilterThrows(g) THEN Thrown
    ELSE IF ft # "all"
         THEN LET filteredNodes == SelectSeq(NodesOf(g), LAMBDA node : node.group = ft)
                  nodeIds == IdSet(filteredNodes)
                  filteredLinks ==
                      SelectSeq(LinksOf(g),
                                LAMBDA link : /\ EndpointId(SourceOf(link)) \in nodeIds
                                              /\ EndpointId(TargetOf(link)) \in nodeIds)
              IN  [nodes |-> filteredNodes, links |-> filteredLinks]
         ELSE [nodes |-> NodesOf(g), links |-> LinksOf(g)]

\* the forEach of handleNodeClick over (filteredData?.links || [])
RECURSIVE ScanLinks(_, _, _)
ScanLinks(links, id, acc) ==
    IF links = <<>> THEN acc
    ELSE LET link == Head(links)
             sourceId == EndpointId(SourceOf(link))
             targetId == EndpointId(TargetOf(link))
             next == IF sourceId = id \/ targetId = id
                     THEN [nodeIds |-> acc.nodeIds \cup {sourceId, targetId},
                           linkKeys |-> acc.linkKeys \cup {LinkKey(sourceId, targetId)}]
                     ELSE acc
         IN  ScanLinks(Tail(links), id, next)

\* (filteredData?.links || [])
LinksOrEmpty(fd) == IF fd = Null THEN <<>> ELSE fd.links

\* the forEach with the test `sourceId === node.id` alone
RECURSIVE ScanOutgoing(_, _, _)
ScanOutgoing(links, id, acc) ==
    IF links = <<>> THEN acc
    ELSE LET link == Head(links)
             sourceId == EndpointId(SourceOf(link))
             targetId == EndpointId(TargetOf(link))
             next == IF sourceId = id
                     THEN [nodeIds |-> acc.nodeIds \cup {sourceId, targetId},
                           linkKeys |-> acc.linkKeys \cup {LinkKey(sourceId, targetId)}]
                     ELSE acc
         IN  ScanOutgoing(Tail(links), id, next)

\* Highlight that misses the edges arriving at the clicked node
HighlightOutgoingOnly(fd, node) ==
    ScanOutgoing(LinksOrEmpty(fd), PropId(node),
                 [nodeIds |-> {PropId(node)}, linkKeys |-> {}])

\* Highlight that starts from new Set() instead of new Set([node.id])
HighlightWithoutSelf(fd, node) ==
    ScanLinks(LinksOrEmpty(fd), PropId(node), [nodeIds |-> {}, linkKeys |-> {}])

\* the two sets handleNodeClick computes for a clicked node
Highlight(fd, node) ==
    ScanLinks(LinksOrEmpty(fd), PropId(node), [nodeIds |-> {PropId(node)}, linkKeys |-> {}])

\* the value of the useMemo in the current state
FilteredNow == filteredData(graphData, filterType)

\* if (error): a non-empty string
Truthy(e) == e # Null /\ e.str # ""

\* getLinkColor and linkWidth, called for each link handed to ForceGraph2D,
\* raise on some link
PaintThrows(fd) == \E i \in DOMAIN fd.links : LinkThrows(fd.links[i])

\* the colour getNodeColor gives a node that is not muted: the switch on
\* node.group (no payload node of the model carries is_method)
NodeGroupColor(node) ==
    IF ~Has(node, "group") THEN "#78909c"
    ELSE IF node.group = "function" THEN "#26a69a"
    ELSE IF node.group = "class" THEN "#ef5350"
    ELSE IF node.group = "variable" THEN "#ffa726"
    ELSE "#78909c"

\* getNodeColor that mutes every node outside the set, also when it is empty
getNodeColorMutesOnEmpty(node) ==
    IF PropId(node) \notin highlightNodes THEN "#ccc" ELSE NodeGroupColor(node)

\* nodeColor={getNodeColor}
getNodeColor(node) ==
    IF Cardinality(highlightNodes) > 0 /\ PropId(node) \notin highlightNodes
    THEN "#ccc"
    ELSE NodeGroupColor(node)

\* the colour getLinkColor gives a link that is not muted: the switch on link.type
LinkTypeColor(link) ==
    IF ~Has(link, "type") THEN "#78909c"
    ELSE IF link.type = "calls" THEN "#42a5f5"
    ELSE IF link.type = "inherits" THEN "#ef5350"
    ELSE IF link.type = "contains" THEN "#66bb6a"
    ELSE "#78909c"

\* linkColor={getLinkColor}
getLinkColor(link) ==
    IF Cardinality(highlightLinks) > 0 /\ linkKeyOf(link) \notin highlightLinks
    THEN "#e0e0e0"
    ELSE LinkTypeColor(link)

\* the linkWidth accessor, in tenths of a pixel: 3 for a highlighted link, 1.5 otherwise
linkWidth(link) ==
    IF Cardinality(highlightLinks) > 0 /\ linkKeyOf(link) \in highlightLinks
    THEN 30
    ELSE 15

\* which of the four early returns / the full view the component renders;
\* "crashed" when the useMemo body or a link accessor raised
View ==
    IF FilteredNow = Thrown THEN "crashed"
    ELSE IF loading THEN "loading"
    ELSE IF Truthy(error) THEN "error"
    ELSE IF FilteredNow = Null \/ Len(FilteredNow.nodes) = 0 THEN "empty"
    ELSE IF PaintThrows(FilteredNow) THEN "crashed"
    ELSE "graph"

(***************************************************************************)
(* The fetch effect: useEffect(..., [code, onGraphData])                   *)
(***************************************************************************)
FetchIds == 1..MaxFetches

InFlight == {k \in FetchIds : pc[k] \in {"fetch", "json"}}

\* the effect body without the setError(null) before the request
CodeEffectKeepsError(c) ==
    IF IsBlank(c)
    THEN /\ graphData' = Null
         /\ UNCHANGED <<loading, error, issued, pc, lastData>>
    ELSE /\ issued < MaxFetches
         /\ loading' = TRUE
         /\ issued' = issued + 1
         /\ pc' = [pc EXCEPT ![issued + 1] = "fetch"]
         /\ lastData' = Null
         /\ UNCHANGED <<graphData, error>>

\* the effect body up to the first await of fetchGraphData
CodeEffect(c) ==
    IF IsBlank(c)
    THEN /\ graphData' = Null
         /\ UNCHANGED <<loading, error, issued, pc, lastData>>
    ELSE /\ issued < MaxFetches
         /\ loading' = TRUE
         /\ error' = Null
         /\ issued' = issued + 1
         /\ pc' = [pc EXCEPT ![issued + 1] = "fetch"]
         /\ lastData' = Null
         /\ UNCHANGED graphData

\* first render of <CodeVisualization code={code} /> and its mount effect
Mount(c) ==
    /\ ~mounted
    /\ mounted' = TRUE
    /\ code' = c
    /\ CodeEffect(c)
    /\ UNCHANGED <<selectedNode, filterType, highlightNodes, highlightLinks>>

\* the parent re-renders with another `code`: the effect runs again
CodeChange(c) ==
    /\ mounted
    /\ c # code
    /\ code' = c
    /\ CodeEffect(c)
    /\ UNCHANGED <<mounted, selectedNode, filterType, highlightNodes, highlightLinks>>

\* what the call k was answered with, kept for the most recently issued call
Answered(k, answer) == lastData' = IF k = issued THEN answer ELSE lastData

\* the catch block with a setGraphData(null) added
CatchWipesGraph(k, err) ==
    /\ error' = Str(IF err.message # "" THEN err.message
                    ELSE "Unable to connect to backend server")
    /\ graphData' = Null
    /\ loading' = FALSE
    /\ pc' = [pc EXCEPT ![k] = "done"]
    /\ Answered(k, [failed |-> TRUE])
    /\ UNCHANGED <<mounted, code, selectedNode, filterType,
                   highlightNodes, highlightLinks, issued>>

\* the catch block followed by a retry of the same request
CatchRetries(k, err) ==
    /\ error' = Str(IF err.message # "" THEN err.message
                    ELSE "Unable to connect to backend server")
    /\ pc' = [pc EXCEPT ![k] = "fetch"]
    /\ Answered(k, [failed |-> TRUE])
    /\ UNCHANGED <<mounted, code, graphData, loading, selectedNode, filterType,
                   highlightNodes, highlightLinks, issued>>

\* the catch block without the finally block: loading stays true
CatchLeavesLoading(k, err) ==
    /\ error' = Str(IF err.message # "" THEN err.message
                    ELSE "Unable to connect to backend server")
    /\ pc' = [pc EXCEPT ![k] = "done"]
    /\ Answered(k, [failed |-> TRUE])
    /\ UNCHANGED <<mounted, code, graphData, loading, selectedNode, filterType,
                   highlightNodes, highlightLinks, issued>>

\* catch (err) { setError(err.message || '...') } finally { setLoading(false) }
Catch(k, err) ==
    /\ error' = Str(IF err.message # "" THEN err.message
                    ELSE "Unable to connect to backend server")
    /\ loading' = FALSE
    /\ pc' = [pc EXCEPT ![k] = "done"]
    /\ Answered(k, [failed |-> TRUE])
    /\ UNCHANGED <<mounted, code, graphData, selectedNode, filterType,
                   highlightNodes, highlightLinks, issued>>

\* await fetch(...) resolves with a response
FetchResolve(k) ==
    /\ pc[k] = "fetch"
    /\ pc' = [pc EXCEPT ![k] = "json"]
    /\ UNCHANGED <<mounted, code, graphData, loading, error, selectedNode, filterType,
                   highlightNodes, highlightLinks, issued, lastData>>

\* await fetch(...) rejects
FetchReject(k, err) ==
    /\ pc[k] = "fetch"
    /\ Catch(k, err)

\* the test without data.ok: any body that carries a graph is stored
IsGraphResponseIgnoresOk(data) ==
    Has(data, "graph") /\ data.graph # Null

\* data.ok && data.graph
IsGraphResponse(data) ==
    /\ Has(data, "ok") /\ data.ok
    /\ Has(data, "graph") /\ data.graph # Null

\* data.detail?.message || 'Failed to generate visualization'
SemanticMessage(data) ==
    IF Has(data, "detail") /\ Has(data.detail, "message") /\ data.detail.message # ""
    THEN data.detail.message
    ELSE "Failed to generate visualization"

\* the state written when response.json() has resolved with data
StoreResponse(data) ==
    IF IsGraphResponse(data)
    THEN /\ graphData' = data.graph
         /\ UNCHANGED <<error, selectedNode, highlightNodes, highlightLinks>>
    ELSE /\ error' = Str(SemanticMessage(data))
         /\ UNCHANGED <<graphData, selectedNode, highlightNodes, highlightLinks>>

\* await response.json() resolves: the rest of the try block, then finally
JsonResolve(k, data) ==
    /\ pc[k] = "json"
    /\ StoreResponse(data)
    /\ loading' = FALSE
    /\ pc' = [pc EXCEPT ![k] = "done"]
    /\ Answered(k, [data |-> data])
    /\ UNCHANGED <<mounted, code, filterType, issued>>

\* await response.json() rejects
JsonReject(k, err) ==
    /\ pc[k] = "json"
    /\ Catch(k, err)

(***************************************************************************)
(* Event handlers, enabled while the full view is rendered                 *)
(***************************************************************************)
\* handleNodeClick as a toggle: a click on the selected node deselects it
handleNodeClickToggle(node) ==
    /\ mounted /\ View = "graph"
    /\ node \in Range(FilteredNow.nodes)
    /\ IF selectedNode = node
       THEN /\ selectedNode' = Null
            /\ highlightNodes' = {}
            /\ highlightLinks' = {}
       ELSE /\ selectedNode' = node
            /\ highlightNodes' = Highlight(FilteredNow, node).nodeIds
            /\ highlightLinks' = Highlight(FilteredNow, node).linkKeys
    /\ UNCHANGED <<mounted, code, graphData, loading, error, filterType,
                   issued, pc, lastData>>

\* handleNodeClick with a setFilterType('all') added
handleNodeClickResetsFilter(node) ==
    /\ mounted /\ View = "graph"
    /\ node \in Range(FilteredNow.nodes)
    /\ selectedNode' = node
    /\ filterType' = "all"
    /\ highlightNodes' = Highlight(FilteredNow, node).nodeIds
    /\ highlightLinks' = Highlight(FilteredNow, node).linkKeys
    /\ UNCHANGED <<mounted, code, graphData, loading, error, issued, pc, lastData>>

\* onNodeClick={handleNodeClick}
handleNodeClick(node) ==
    /\ mounted /\ View = "graph"
    /\ node \in Range(FilteredNow.nodes)
    /\ selectedNode' = node
    /\ highlightNodes' = Highlight(FilteredNow, node).nodeIds
    /\ highlightLinks' = Highlight(FilteredNow, node).linkKeys
    /\ UNCHANGED <<mounted, code, graphData, loading, error, filterType,
                   issued, pc, lastData>>

\* handleBackgroundClick that resets the selection alone, as the Close button does
handleBackgroundClickOnlySelection ==
    /\ mounted /\ View = "graph"
    /\ selectedNode' = Null
    /\ UNCHANGED <<mounted, code, graphData, loading, error, filterType,
                   highlightNodes, highlightLinks, issued, pc, lastData>>

\* onBackgroundClick={handleBackgroundClick}
handleBackgroundClick ==
    /\ mounted /\ View = "graph"
    /\ selectedNode' = Null
    /\ highlightNodes' = {}
    /\ highlightLinks' = {}
    /\ UNCHANGED <<mounted, code, graphData, loading, error, filterType,
                   issued, pc, lastData>>

\* the onChange without the two highlight resets
FilterChangeKeepsHighlight(value) ==
    /\ mounted /\ View = "graph"
    /\ filterType' = value
    /\ selectedNode' = Null
    /\ UNCHANGED <<mounted, code, graphData, loading, error, highlightNodes,
                   highlightLinks, issued, pc, lastData>>

\* the filter <select>'s onChange
FilterChange(value) ==
    /\ mounted /\ View = "graph"
    /\ filterType' = value
    /\ selectedNode' = Null
    /\ highlightNodes' = {}
    /\ highlightLinks' = {}
    /\ UNCHANGED <<mounted, code, graphData, loading, error, issued, pc, lastData>>

\* the Close button of the node details panel: onClick={() => setSelectedNode(null)}
CloseDetails ==
    /\ mounted /\ View = "graph"
    /\ selectedNode # Null
    /\ selectedNode' = Null
    /\ UNCHANGED <<mounted, code, graphData, loading, error, filterType,
                   highlightNodes, highlightLinks, issued, pc, lastData>>

(***************************************************************************)
(* The component under the analysis service                                *)
(***************************************************************************)
\* the session history screen before any session is selected
HistoryIdle ==
    /\ selectedId = Null
    /\ selectedDetail = Null
    /\ detailCalls = <<>>

\* the admin screen with no stored token
AdminIdle ==
    /\ token = ""
    /\ stats = Null
    /\ logs = <<>>
    /\ keys = <<>>
    /\ adminError = Null
    /\ polling = FALSE
    /\ polls = <<>>

Init ==
    /\ mounted = FALSE
    /\ code = <<>>
    /\ graphData = Null
    /\ loading = FALSE
    /\ error = Null
    /\ selectedNode = Null
    /\ filterType = "all"
    /\ highlightNodes = {}
    /\ highlightLinks = {}
    /\ issued = 0
    /\ pc = [k \in FetchIds |-> "idle"]
    /\ lastData = Null
    /\ lastEvent = "init"
    /\ HistoryIdle
    /\ AdminIdle

\* the name a click on node is recorded under: a click on the node that the
\* previous event, itself a click, selected is recorded as a repeated click
ClickEvent(node) ==
    IF lastEvent \in {"handleNodeClick", "handleNodeClick again"} /\ selectedNode = node
    THEN "handleNodeClick again"
    ELSE "handleNodeClick"

\* the events of the user on the rendered graph
\* the other two screens are not on display: their state stays as it is
OtherScreensIdle == UNCHANGED <<historyVars, adminVars>>

UserEvent ==
    \/ \E node \in Range(NodesOf(graphData)) :
          handleNodeClick(node) /\ lastEvent' = ClickEvent(node) /\ OtherScreensIdle
    \/ handleBackgroundClick /\ lastEvent' = "handleBackgroundClick" /\ OtherScreensIdle
    \/ \E value \in FilterOptions : FilterChange(value) /\ lastEvent' = "FilterChange" /\ OtherScreensIdle
    \/ CloseDetails /\ lastEvent' = "CloseDetails" /\ OtherScreensIdle

Next ==
    \/ \E c \in Texts : Mount(c) /\ lastEvent' = "Mount" /\ OtherScreensIdle
    \/ \E c \in Texts : CodeChange(c) /\ lastEvent' = "CodeChange" /\ OtherScreensIdle
    \/ \E k \in FetchIds : FetchResolve(k) /\ lastEvent' = "FetchResolve" /\ OtherScreensIdle
    \/ \E k \in FetchIds, err \in FetchRejections :
          FetchReject(k, err) /\ lastEvent' = "FetchReject" /\ OtherScreensIdle
    \/ \E k \in FetchIds, data \in Datas :
          JsonResolve(k, data) /\ lastEvent' = "JsonResolve" /\ OtherScreensIdle
    \/ \E k \in FetchIds, err \in JsonRejections :
          JsonReject(k, err) /\ lastEvent' = "JsonReject" /\ OtherScreensIdle
    \/ UserEvent

Spec == Init /\ [][Next]_vars

(***************************************************************************)
(* The pure parts over generated graphs: the component holding a graph g   *)
(* (mounted with non-blank code, its fetch answered with g), then driven   *)
(* by the event handlers alone.                                            *)
(***************************************************************************)
InitGraphs ==
    \E g \in GenGraphs :
        /\ mounted = TRUE
        /\ code = <<"a">>
        /\ graphData = g
        /\ loading = FALSE
        /\ error = Null
        /\ selectedNode = Null
        /\ filterType = "all"
        /\ highlightNodes = {}
        /\ highlightLinks = {}
        /\ issued = 1
        /\ pc = [k \in FetchIds |-> IF k = 1 THEN "done" ELSE "idle"]
        /\ lastData = [data |-> [ok |-> TRUE, graph |-> g]]
        /\ lastEvent = "JsonResolve"
        /\ HistoryIdle
        /\ AdminIdle

NextGraphs == UserEvent

SpecGraphs == InitGraphs /\ [][NextGraphs]_vars

(***************************************************************************)
(* The same over loosely-typed payloads: the component holding a raw       *)
(* payload as the service sent it, driven by the event handlers.           *)
(***************************************************************************)
\* an endpoint in the other of its two forms
Flip(e) == IF e.typeof = "object" THEN Bare(e.value.id) ELSE Obj(e.value)

\* an endpoint as a bare id
AsBare(e) == IF e.typeof = "object" THEN Bare(e.value.id) ELSE e

\* the edge lists that differ from links in the form of some endpoints only
FormVariants(links) ==
    {[i \in DOMAIN links |->
        [links[i] EXCEPT !.source = IF f[i][1] THEN Flip(@) ELSE @,
                         !.target = IF f[i][2] THEN Flip(@) ELSE @]] :
       f \in [DOMAIN links -> BOOLEAN \X BOOLEAN]}

\* links with every endpoint given as a bare id
AllBare(links) ==
    [i \in DOMAIN links |->
        [links[i] EXCEPT !.source = AsBare(@), !.target = AsBare(@)]]

\* g with its edge list, under the name g gives it, replaced by ls
WithLinks(g, ls) ==
    IF Has(g, "links") THEN [g EXCEPT !.links = ls] ELSE [g EXCEPT !.edges = ls]

\* a chain of three edges over GenNodes, the last one to an id no node carries
GraphChain ==
    [nodes |-> GenNodes,
     links |-> <<Link(Bare("f1"), Bare("f2"), "calls"),
                 Link(Bare("f2"), Bare("c1"), "calls"),
                 Link(Bare("c1"), Bare("zz"), "calls")>>]

\* well-formed payloads in every mix of the two endpoint forms
FormGraphs ==
    UNION {{WithLinks(g, ls) :
               ls \in FormVariants(IF Has(g, "links") THEN g.links ELSE g.edges)} :
           g \in {GraphScenario, GraphDangling, GraphChain}}

InitRaw ==
    \E g \in RawGraphs \cup FormGraphs :
        /\ mounted = TRUE
        /\ code = <<"a">>
        /\ graphData = g
        /\ loading = FALSE
        /\ error = Null
        /\ selectedNode = Null
        /\ filterType = "all"
        /\ highlightNodes = {}
        /\ highlightLinks = {}
        /\ issued = 1
        /\ pc = [k \in FetchIds |-> IF k = 1 THEN "done" ELSE "idle"]
        /\ lastData = [data |-> [ok |-> TRUE, graph |-> g]]
        /\ lastEvent = "JsonResolve"
        /\ HistoryIdle
        /\ AdminIdle

NextRaw == UserEvent

SpecRaw == InitRaw /\ [][NextRaw]_vars

(***************************************************************************)
(* The session history screen: HistoryView with its list loaded, the user  *)
(* clicking sessions, the detail requests answered in any order.           *)
(***************************************************************************)
\* the ids of the sessions in the list
Sessions == {1, 2}

\* the body of GET /history/{id}
SessionDetail(id) == [id |-> id, code |-> <<"a">>]

\* the bodies a detail request for id is answered with: the session, or the
\* body of a 404
DetailBodies(id) == {SessionDetail(id), [detail |-> Str("Session not found")]}

\* selectItem up to its first await: onClick={() => selectItem(it.id)}
selectItem(id) ==
    /\ Len(detailCalls) < MaxSelects
    /\ selectedId' = id
    /\ selectedDetail' = Null
    /\ detailCalls' = Append(detailCalls, [id |-> id, pc |-> "fetch"])

\* await fetch(`/history/${id}`) resolves
DetailFetchResolve(k) ==
    /\ detailCalls[k].pc = "fetch"
    /\ detailCalls' = [detailCalls EXCEPT ![k].pc = "json"]
    /\ UNCHANGED <<selectedId, selectedDetail>>

\* await res.json() resolves with data: setSelectedDetail(data)
DetailJsonResolve(k, data) ==
    /\ detailCalls[k].pc = "json"
    /\ selectedDetail' = data
    /\ detailCalls' = [detailCalls EXCEPT ![k].pc = "done"]
    /\ UNCHANGED selectedId

\* either await rejects: catch (e) { // ignore }
DetailReject(k) ==
    /\ detailCalls[k].pc \in {"fetch", "json"}
    /\ detailCalls' = [detailCalls EXCEPT ![k].pc = "done"]
    /\ UNCHANGED <<selectedId, selectedDetail>>

\* the graph explorer and the admin screen are not on display
HistoryOnly == UNCHANGED <<explorerVars, adminVars>>

NextHistory ==
    \/ \E id \in Sessions : selectItem(id) /\ lastEvent' = "selectItem" /\ HistoryOnly
    \/ \E k \in DOMAIN detailCalls :
          DetailFetchResolve(k) /\ lastEvent' = "DetailFetchResolve" /\ HistoryOnly
    \/ \E k \in DOMAIN detailCalls :
          \E data \in DetailBodies(detailCalls[k].id) :
              DetailJsonResolve(k, data) /\ lastEvent' = "DetailJsonResolve" /\ HistoryOnly
    \/ \E k \in DOMAIN detailCalls :
          DetailReject(k) /\ lastEvent' = "DetailReject" /\ HistoryOnly

SpecHistory == Init /\ [][NextHistory]_vars

(***************************************************************************)
(* The admin screen: AdminView with its token, the polling effect keyed by *)
(* [authenticated, headers], and logout.                                   *)
(***************************************************************************)
\* the values of the token field and of localStorage's codemuse_admin_token
Tokens == {"", "secret"}

\* an array as Array.isArray sees it, and a body that is not an array
Arr(items) == [isArray |-> TRUE, items |-> items]

NotArr == [isArray |-> FALSE]

\* Array.isArray(l) ? l : []
ArrayOrEmpty(v) == IF v.isArray THEN v.items ELSE <<>>

\* what Promise.all resolves with: the three bodies of an accepted token, and
\* those of a refused one
PollAnswers ==
    {[s |-> [total_requests |-> 1], l |-> Arr(<<"log1">>), k |-> Arr(<<"key1">>)],
     [s |-> [detail |-> Str("Unauthorized")], l |-> NotArr, k |-> NotArr]}

\* const authenticated = !!token
authenticated == token # ""

\* the effect body for a truthy token: fetchAll() and setInterval(fetchAll, 5000)
StartPolling ==
    /\ Len(polls) < MaxPolls
    /\ polls' = Append(polls, "pending")
    /\ polling' = TRUE

\* the Login button: saveToken, then the effect of the new token
saveToken(inputToken) ==
    /\ ~authenticated
    /\ token' = inputToken
    /\ IF inputToken # ""
       THEN StartPolling
       ELSE UNCHANGED <<polling, polls>>
    /\ UNCHANGED <<stats, logs, keys, adminError>>

\* the Logout button: logout, then the cleanup of the effect (clearInterval)
logout ==
    /\ authenticated
    /\ token' = ""
    /\ stats' = Null
    /\ logs' = <<>>
    /\ keys' = <<>>
    /\ polling' = FALSE
    /\ UNCHANGED <<adminError, polls>>

\* the interval timer fires: fetchAll is called again
PollTick ==
    /\ polling
    /\ Len(polls) < MaxPolls
    /\ polls' = Append(polls, "pending")
    /\ UNCHANGED <<token, stats, logs, keys, adminError, polling>>

\* Promise.all resolves: setStats, setLogs, setKeys
PollResolve(k, answer) ==
    /\ polls[k] = "pending"
    /\ stats' = answer.s
    /\ logs' = ArrayOrEmpty(answer.l)
    /\ keys' = ArrayOrEmpty(answer.k)
    /\ polls' = [polls EXCEPT ![k] = "done"]
    /\ UNCHANGED <<token, adminError, polling>>

\* Promise.all rejects: setError('Failed to load admin data')
PollReject(k) ==
    /\ polls[k] = "pending"
    /\ adminError' = Str("Failed to load admin data")
    /\ polls' = [polls EXCEPT ![k] = "done"]
    /\ UNCHANGED <<token, stats, logs, keys, polling>>

\* the screen after its first render and effect: the token is what
\* localStorage held, and polling has begun if there was one
InitAdmin ==
    /\ \E t \in Tokens :
          /\ token = t
          /\ polling = (t # "")
          /\ polls = IF t # "" THEN <<"pending">> ELSE <<>>
    /\ stats = Null
    /\ logs = <<>>
    /\ keys = <<>>
    /\ adminError = Null
    /\ HistoryIdle
    /\ mounted = FALSE
    /\ code = <<>>
    /\ graphData = Null
    /\ loading = FALSE
    /\ error = Null
    /\ selectedNode = Null
    /\ filterType = "all"
    /\ highlightNodes = {}
    /\ highlightLinks = {}
    /\ issued = 0
    /\ pc = [k \in FetchIds |-> "idle"]
    /\ lastData = Null
    /\ lastEvent = "init"

\* the graph explorer and the history screen are not on display
AdminOnly == UNCHANGED <<explorerVars, historyVars>>

NextAdmin ==
    \/ \E t \in Tokens : saveToken(t) /\ lastEvent' = "saveToken" /\ AdminOnly
    \/ logout /\ lastEvent' = "logout" /\ AdminOnly
    \/ PollTick /\ lastEvent' = "PollTick" /\ AdminOnly
    \/ \E k \in DOMAIN polls, answer \in PollAnswers :
          PollResolve(k, answer) /\ lastEvent' = "PollResolve" /\ AdminOnly
    \/ \E k \in DOMAIN polls : PollReject(k) /\ lastEvent' = "PollReject" /\ AdminOnly

SpecAdmin == InitAdmin /\ [][NextAdmin]_vars

(***************************************************************************)
(* Properties                                                              *)
(***************************************************************************)
\* the ids of the nodes of a graph handed to the renderer
NodeIdsOf(fd) == {fd.nodes[i].id : i \in DOMAIN fd.nodes}

\* the one-hop neighbourhood of id in a list of edges, as the specification
\* states it: the incident edges, their keys and their endpoints
OneHop(links, id) ==
    LET incident == {i \in DOMAIN links :
                        \/ EndpointId(links[i].source) = id
                        \/ EndpointId(links[i].target) = id}
    IN  [nodeIds |-> {id} \cup {EndpointId(links[i].source) : i \in incident}
                         \cup {EndpointId(links[i].target) : i \in incident},
         edgeKeys |-> {LinkKey(EndpointId(links[i].source), EndpointId(links[i].target)) :
                          i \in incident}]

\* result holds exactly the elements of orig that satisfy Keep, in orig's order
ExactlyThose(result, orig, Keep(_)) ==
    /\ Len(result) = Cardinality({i \in DOMAIN orig : Keep(orig[i])})
    /\ \E f \in [DOMAIN result -> DOMAIN orig] :
          /\ \A i, j \in DOMAIN result : i < j => f[i] < f[j]
          /\ \A i \in DOMAIN result : result[i] = orig[f[i]] /\ Keep(orig[f[i]])

AllResolved == issued > 0 /\ InFlight = {}

\* C1: once every fetch has resolved and the most recently issued fetch (the
\* one for the current, non-blank code) was answered with a graph, graphData
\* is that graph: an earlier fetch's answer never replaces it.
C1_StaleResponseRejected ==
    (/\ AllResolved
     /\ ~IsBlank(code)
     /\ Has(lastData, "data")
     /\ IsGraphResponse(lastData.data))
        => graphData = lastData.data.graph

\* C2: every step that changes the input code, and every step in which a fetch
\* stores a graph, leaves selectedNode null and both highlight sets empty.
C2_NewGraphClearsSelection ==
    [][(\/ \E c \in Texts : CodeChange(c)
        \/ \E k \in FetchIds, data \in Datas :
              JsonResolve(k, data) /\ IsGraphResponse(data))
          => (selectedNode' = Null /\ highlightNodes' = {} /\ highlightLinks' = {})]_vars

\* C3: in every state the highlight sets are the one-hop neighbourhood of the
\* selected node in the filtered graph, and empty when nothing is selected.
C3_HighlightsDerived ==
    LET derived == IF selectedNode = Null
                   THEN [nodeIds |-> {}, edgeKeys |-> {}]
                   ELSE OneHop(LinksOrEmpty(FilteredNow), selectedNode.id)
    IN  highlightNodes = derived.nodeIds /\ highlightLinks = derived.edgeKeys

\* C4: the graph handed to the renderer, under every filter, has no edge with
\* an endpoint id that none of its nodes carries.
C4_NoDanglingEdgeRendered ==
    View = "graph" =>
        \A i \in DOMAIN FilteredNow.links :
            /\ EndpointId(FilteredNow.links[i].source) \in NodeIdsOf(FilteredNow)
            /\ EndpointId(FilteredNow.links[i].target) \in NodeIdsOf(FilteredNow)

\* C5: under a category other than 'all' the filtered graph holds exactly the
\* nodes of that group and exactly the edges with both endpoints among them,
\* so none of its edges dangles.
C5_FilterByCategory ==
    (graphData # Null /\ filterType # "all") =>
        LET fd == FilteredNow
            InGroup(node) == node.group = filterType
            kept == {node.id : node \in {n \in Range(NodesOf(graphData)) : InGroup(n)}}
            Between(link) == /\ EndpointId(link.source) \in kept
                             /\ EndpointId(link.target) \in kept
        IN  /\ ExactlyThose(fd.nodes, NodesOf(graphData), InGroup)
            /\ ExactlyThose(fd.links, LinksOf(graphData), Between)
            /\ \A i \in DOMAIN fd.links :
                  /\ EndpointId(fd.links[i].source) \in NodeIdsOf(fd)
                  /\ EndpointId(fd.links[i].target) \in NodeIdsOf(fd)

\* C5 witness: the scenario graph filtered by 'function' is nodes [f1], edges [].
C5_Witness ==
    /\ graphData = GraphScenario
    /\ filterType = "function"
    /\ FilteredNow = [nodes |-> <<Node("f1", "function")>>, links |-> <<>>]

\* C6: under 'all' the filtered graph has the node list and the edge list of
\* the held graph, nothing added, dropped or reordered.
C6_FilterAllIsIdentity ==
    (graphData # Null /\ filterType = "all") =>
        /\ FilteredNow.nodes = graphData.nodes
        /\ FilteredNow.links = IF Has(graphData, "links") THEN graphData.links
                               ELSE graphData.edges

\* C6 witness: a graph with a dangling edge is shown under 'all' with a node
\* selected, both of its edges still there.
C6_Witness ==
    /\ graphData = GraphDangling
    /\ filterType = "all"
    /\ selectedNode # Null
    /\ Len(FilteredNow.links) = 2

\* C7: a click on a node sets the highlight sets to the node's one-hop
\* neighbourhood in the filtered graph: the keys of the incident edges, and
\* the node with both endpoints of those edges.
C7_SelectNodeOneHop ==
    [][\A node \in Range(NodesOf(graphData)) :
          handleNodeClick(node) =>
              /\ selectedNode' = node
              /\ highlightNodes' = OneHop(FilteredNow.links, node.id).nodeIds
              /\ highlightLinks' = OneHop(FilteredNow.links, node.id).edgeKeys]_vars

\* C7 witness: c1 selected in f1->c1, c1->v1.
C7_Witness ==
    /\ graphData = GraphScenario
    /\ filterType = "all"
    /\ selectedNode = Node("c1", "class")
    /\ highlightNodes = {"c1", "f1", "v1"}
    /\ highlightLinks = {"f1->c1", "c1->v1"}

\* C8: in every state with a node selected, the node's id is in
\* highlightNodes, also when the node has no incident edge.
C8_SelectedIsHighlighted ==
    selectedNode # Null => selectedNode.id \in highlightNodes

\* C8 witness: the node of the one-node graph is selected.
C8_Witness ==
    /\ graphData = GraphIsolated
    /\ selectedNode = Node("v1", "variable")
    /\ highlightNodes = {"v1"}
    /\ highlightLinks = {}

\* C9: in every state with no node selected both highlight sets are empty.
C9_NoSelectionNoHighlight ==
    selectedNode = Null => (highlightNodes = {} /\ highlightLinks = {})

\* C10: a step of the filter's onChange with value c ends with filterType = c,
\* no node selected and both highlight sets empty.
C10_FilterChangeClearsSelection ==
    [][\A c \in FilterOptions :
          FilterChange(c) =>
              /\ filterType' = c
              /\ selectedNode' = Null
              /\ highlightNodes' = {}
              /\ highlightLinks' = {}]_vars

\* C10 witness: the scenario graph under 'class', nothing selected or highlighted.
C10_Witness ==
    /\ graphData = GraphScenario
    /\ filterType = "class"
    /\ selectedNode = Null
    /\ highlightNodes = {}
    /\ highlightLinks = {}

\* C11: a click on a node and a change of the filter issue no request and
\* leave graphData, loading and error as they were; the click leaves
\* filterType as it was too.
C11_SelectionsDoNotFetch ==
    [][/\ \A node \in Range(NodesOf(graphData)) :
            handleNodeClick(node) =>
                UNCHANGED <<graphData, loading, error, issued, pc, filterType>>
       /\ \A c \in FilterOptions :
            FilterChange(c) => UNCHANGED <<graphData, loading, error, issued, pc>>]_vars

\* C11 witness: a node was just clicked under the 'function' filter while a
\* later fetch is still in flight.
C11_Witness ==
    /\ lastEvent = "handleNodeClick"
    /\ filterType = "function"
    /\ selectedNode # Null
    /\ InFlight # {}

\* C12: a background click resets selectedNode and both highlight sets and
\* leaves filterType, graphData, loading and error as they were.
C12_ClearSelectionFrame ==
    [][handleBackgroundClick =>
          /\ selectedNode' = Null
          /\ highlightNodes' = {}
          /\ highlightLinks' = {}
          /\ UNCHANGED <<filterType, graphData, loading, error>>]_vars

\* C12 witness: the background was just clicked under the 'function' filter.
C12_Witness ==
    /\ lastEvent = "handleBackgroundClick"
    /\ graphData = GraphDangling
    /\ filterType = "function"
    /\ selectedNode = Null
    /\ highlightNodes = {}
    /\ highlightLinks = {}

\* C13: a fetch that ends by a rejection, or by a response without a graph
\* payload, leaves an error message set and graphData at its previous value.
C13_FailureKeepsGraph ==
    [][\A k \in FetchIds :
          (\/ \E err \in Rejections : FetchReject(k, err) \/ JsonReject(k, err)
           \/ \E data \in Datas : JsonResolve(k, data) /\ ~IsGraphResponse(data))
            => (graphData' = graphData /\ Truthy(error'))]_vars

\* C13 witness: a fetch was just rejected while an earlier graph is held.
C13_Witness ==
    /\ lastEvent \in {"FetchReject", "JsonReject"}
    /\ graphData = GraphScenario
    /\ Truthy(error)
    /\ ~loading

C15_TransportErrorGeneric ==
    [][\A k \in FetchIds, err \in Rejections :
          (FetchReject(k, err) \/ JsonReject(k, err))
            => error' = Str("Unable to connect to backend server")]_vars

\* C15 as amended: a rejected fetch or response.json() ends the call with
\* loading false and error set to the rejection's message when it is not
\* empty, and to the generic text otherwise; and while an error is held a
\* change of the code to some non-blank text can start a new fetch.
C15_TransportErrorMessage ==
    /\ [][\A k \in FetchIds, err \in Rejections :
            (FetchReject(k, err) \/ JsonReject(k, err))
              => /\ error' = Str(IF err.message = ""
                                 THEN "Unable to connect to backend server"
                                 ELSE err.message)
                 /\ loading' = FALSE
                 /\ pc'[k] = "done"]_vars
    /\ []((mounted /\ Truthy(error) /\ issued < MaxFetches)
            => \E c \in Texts : ~IsBlank(c) /\ ENABLED CodeChange(c))

\* C15 witness: response.json() was just rejected and its message is shown.
C15_Witness ==
    /\ lastEvent = "JsonReject"
    /\ error = Str("Unexpected token < in JSON at position 0")
    /\ ~loading
    /\ View = "error"

C17_SelectNodeIdempotent ==
    [][\A node \in Range(NodesOf(graphData)) :
          (/\ lastEvent \in {"handleNodeClick", "handleNodeClick again"}
           /\ selectedNode = node
           /\ handleNodeClick(node))
            => UNCHANGED <<selectedNode, highlightNodes, highlightLinks>>]_vars

\* C17 witness: c1 of the scenario graph was clicked twice in a row.
C17_Witness ==
    /\ lastEvent = "handleNodeClick again"
    /\ graphData = GraphScenario
    /\ selectedNode = Node("c1", "class")
    /\ highlightNodes = {"c1", "f1", "v1"}
    /\ highlightLinks = {"f1->c1", "c1->v1"}

\* a filtered graph with every endpoint replaced by the id it resolves to
Canonical(fd) ==
    [nodes |-> fd.nodes,
     links |-> [i \in DOMAIN fd.links |->
                  [source |-> EndpointId(fd.links[i].source),
                   target |-> EndpointId(fd.links[i].target),
                   type |-> fd.links[i].type]]]

\* C18: a payload whose edge endpoints are given in any mix of the two forms
\* (bare id, object with id) is filtered to the same nodes and the same edges
\* by id as the payload with every endpoint bare, gives every node the same
\* highlight sets, and gives every edge the same rendering key.
C18_EndpointFormsAgree ==
    graphData \in FormGraphs =>
        LET ls == IF Has(graphData, "links") THEN graphData.links ELSE graphData.edges
            bare == WithLinks(graphData, AllBare(ls))
            other == filteredData(bare, filterType)
        IN  /\ Canonical(other) = Canonical(FilteredNow)
            /\ \A node \in Range(graphData.nodes) :
                  Highlight(other, node) = Highlight(FilteredNow, node)
            /\ \A i \in DOMAIN ls : linkKeyOf(ls[i]) = linkKeyOf(AllBare(ls)[i])

\* C18 witness: a graph with one edge given by objects and one by bare ids,
\* filtered and with a node selected.
C18_Witness ==
    /\ graphData = GraphDangling
    /\ filterType = "function"
    /\ selectedNode = Node("f1", "function")
    /\ highlightNodes = {"f1", "f2"}
    /\ highlightLinks = {"f1->f2"}

\* C19: the edges handed to the renderer come from `links` when the payload
\* has it, from `edges` when it has only that, and there are none when it has
\* neither: all of that list under 'all', a part of it under a category.
C19_LinksBeforeEdges ==
    (graphData # Null /\ FilteredNow # Thrown) =>
        LET chosen == IF Has(graphData, "links") THEN graphData.links
                      ELSE IF Has(graphData, "edges") THEN graphData.edges
                      ELSE <<>>
        IN  /\ filterType = "all" => FilteredNow.links = chosen
            /\ Range(FilteredNow.links) \subseteq Range(chosen)

\* C19 witness: the payload with both names is shown with its `links`.
C19_Witness ==
    /\ graphData = GraphBoth
    /\ View = "graph"
    /\ selectedNode # Null
    /\ FilteredNow.links = <<Link(Bare("f1"), Bare("c1"), "calls")>>

\* C20: nothing raises while a payload is held, and the graph handed to the
\* renderer has no node without id and no edge whose source or target is
\* missing.
C20_MalformedSkipped ==
    graphData # Null =>
        /\ View # "crashed"
        /\ View = "graph" =>
              /\ \A i \in DOMAIN FilteredNow.nodes : Has(FilteredNow.nodes[i], "id")
              /\ \A i \in DOMAIN FilteredNow.links :
                    /\ EndpointId(SourceOf(FilteredNow.links[i])) # Undefined
                    /\ EndpointId(TargetOf(FilteredNow.links[i])) # Undefined

\* C21: the nodes of the graph held, and of the graph handed to the renderer,
\* carry pairwise different ids: of two payload nodes with the same id at
\* most one is there.
C21_NodeIdsUnique ==
    graphData # Null =>
        /\ \A i, j \in DOMAIN NodesOf(graphData) :
              i # j => PropId(NodesOf(graphData)[i]) # PropId(NodesOf(graphData)[j])
        /\ View = "graph" =>
              \A i, j \in DOMAIN FilteredNow.nodes :
                  i # j => PropId(FilteredNow.nodes[i]) # PropId(FilteredNow.nodes[j])

\* C22: of the graph on display, a node has the muted colour exactly when
\* highlightNodes is non-empty and lacks the node's id, and an edge has the
\* muted colour exactly when highlightLinks is non-empty and lacks the key
\* sourceId->targetId; with an empty set nothing is muted.
C22_EmphasisByMembership ==
    View = "graph" =>
        /\ \A i \in DOMAIN FilteredNow.nodes :
              LET node == FilteredNow.nodes[i]
              IN  (getNodeColor(node) = "#ccc")
                     <=> (highlightNodes # {} /\ node.id \notin highlightNodes)
        /\ \A i \in DOMAIN FilteredNow.links :
              LET link == FilteredNow.links[i]
                  key == LinkKey(EndpointId(link.source), EndpointId(link.target))
              IN  (getLinkColor(link) = "#e0e0e0")
                     <=> (highlightLinks # {} /\ key \notin highlightLinks)

\* C22 witness: with f1 of the scenario graph selected, v1 and the edge
\* c1->v1 are muted, c1 and the edge f1->c1 keep their colours.
C22_Witness ==
    /\ View = "graph"
    /\ graphData = GraphScenario
    /\ selectedNode = Node("f1", "function")
    /\ getNodeColor(Node("v1", "variable")) = "#ccc"
    /\ getNodeColor(Node("c1", "class")) = "#ef5350"
    /\ getLinkColor(Link(Bare("c1"), Bare("v1"), "contains")) = "#e0e0e0"
    /\ getLinkColor(Link(Bare("f1"), Bare("c1"), "calls")) = "#42a5f5"

\* C23: every step in which the input becomes another non-blank text, on
\* mount or by a change, from whatever the view shows, starts exactly one
\* fetch, sets loading and clears the error; every step in which the input
\* becomes blank starts no fetch and does not set loading.
C23_InputChangeStartsLoading ==
    [][\A c \in Texts :
          (Mount(c) \/ CodeChange(c)) =>
              IF IsBlank(c)
              THEN /\ issued' = issued
                   /\ pc' = pc
                   /\ loading' = loading
              ELSE /\ issued' = issued + 1
                   /\ pc'[issued'] = "fetch"
                   /\ loading' = TRUE
                   /\ error' = Null]_vars

\* C23 witness: the input has just changed to non-blank text while the first
\* fetch had ended and no graph was held: the second fetch is on its way,
\* loading is set and no error is left.
C23_Witness ==
    /\ lastEvent = "CodeChange"
    /\ ~IsBlank(code)
    /\ issued = 2 /\ pc[1] = "done" /\ pc[2] = "fetch"
    /\ graphData = Null
    /\ loading /\ error = Null

\* C24: loading is true in every state in which an issued fetch has not yet
\* ended.
C24_LoadingWhileInFlight ==
    InFlight # {} => loading

\* C25: once every issued fetch has ended, error is null if the most recently
\* issued fetch stored a graph and non-null if it failed.
C25_ErrorOfLatestFetch ==
    (AllResolved /\ lastData # Null) =>
        (error = Null <=> (Has(lastData, "data") /\ IsGraphResponse(lastData.data)))

\* C26: while the input is blank no graph is held and no error is shown.
C26_BlankInputShowsNothing ==
    (mounted /\ IsBlank(code)) => (graphData = Null /\ error = Null)

\* C27: whenever a graph with at least one node is held, nothing is loading
\* and no error is shown, the category filter can be set to 'all'.
C27_FilterAlwaysAvailable ==
    (/\ mounted
     /\ graphData # Null
     /\ Len(NodesOf(graphData)) > 0
     /\ ~loading
     /\ ~Truthy(error))
        => ENABLED FilterChange("all")

\* C28: while a node is selected, every edge on display that does not touch
\* the selected node has the muted colour and the normal width.
C28_OtherEdgesMuted ==
    (View = "graph" /\ selectedNode # Null) =>
        \A i \in DOMAIN FilteredNow.links :
            LET link == FilteredNow.links[i]
            IN  (/\ EndpointId(link.source) # selectedNode.id
                 /\ EndpointId(link.target) # selectedNode.id)
                   => (getLinkColor(link) = "#e0e0e0" /\ linkWidth(link) = 15)

\* C29: a session detail on display is the detail of the selected session.
C29_DetailOfSelectedSession ==
    (selectedDetail # Null /\ Has(selectedDetail, "id")) =>
        selectedDetail.id = selectedId

\* C30: while no token is set, stats, logs and keys are empty and the
\* polling timer is not set.
C30_LogoutStaysEmpty ==
    ~authenticated =>
        /\ stats = Null
        /\ logs = <<>>
        /\ keys = <<>>
        /\ ~polling

====
